---- MODULE Spec2Model ----
(***************************************************************************)
(* Model of src/inout/src/inout.rs: the InOut pointer pair, the views      *)
(* derived from it (reborrow, get, into_raw / from_raw) and the two        *)
(* xor_in2out transforms (flat: the hardware-loop assembly block; nested:  *)
(* read, compute in a temporary, write).                                   *)
(*                                                                         *)
(* Memory is a flat byte array.  The caller owns three storage locations   *)
(* of type T (two candidate input/output locations and the data operand),  *)
(* each followed by GroupBytes bytes that belong to other objects of the   *)
(* caller.  A view is a record of its two addresses and of the shape of    *)
(* the type it points to: << >> is u8, <<N>> is GenericArray<u8, N>,       *)
(* <<M, N>> is GenericArray<GenericArray<u8, N>, M>.                       *)
(*                                                                         *)
(* The assembly block is modelled one instruction per step.  A 32-bit      *)
(* register holding a loaded word is kept as its four byte lanes, in the   *)
(* order the bytes have in memory; xor acts on each lane.                  *)
(* lw_pi, sw_pi, xor and lp_setup are taken to be the post-increment load   *)
(* and store, the xor and the hardware-loop setup instructions their names *)
(* denote.  The block post-increments a0, a1 and a2, which it declares as  *)
(* inputs only; regs keeps the values they have when the block ends, and   *)
(* the model covers the block's own memory accesses, not what code         *)
(* compiled after the block does with those registers.                     *)
(***************************************************************************)
EXTENDS Integers, Naturals, Sequences, FiniteSets, TLC

\* ------------------------------------------------------------ bounds
\* Largest flat array length N explored.
MaxN == 16
\* Largest outer length M of a nested array explored.
MaxM == 2
\* Largest row length N of a nested array explored.
MaxRowN == 8
\* Largest number of live views (the borrow stack).
MaxDepth == 3
\* Largest position handed to get().
MaxPos == 2
\* Largest number of xor_in2out calls in one run.
MaxCalls == 2

\* ------------------------------------------------------------ program constants
\* Bytes handled by one iteration of the loop body (two words in, two out);
\* the block asserts N & 7 == 0 and runs N / 8 iterations.
GroupBytes == 8
\* Bytes moved by one lw_pi / sw_pi, and the post-increment of its pointer.
WordBytes == 4

\* ------------------------------------------------------------ pure helpers
Byte == 0..255

Max(a, b) == IF a > b THEN a ELSE b

RECURSIVE XorBits(_, _, _)
XorBits(a, b, n) ==
    IF n = 0 THEN 0
    ELSE ((a + b) % 2) + 2 * XorBits(a \div 2, b \div 2, n - 1)

\* The u8 `^` of line 186, and of each byte lane of the xor instruction.
XorU8(a, b) == XorBits(a, b, 8)

RECURSIVE Product(_)
Product(s) == IF s = << >> THEN 1 ELSE Head(s) * Product(Tail(s))

\* size_of::<T>() for the type of shape s.
SizeOf(s) == Product(s)

\* ------------------------------------------------------------ memory layout
MaxSize == Max(MaxN, MaxM * MaxRowN)
RegionSize == MaxSize + GroupBytes
LocA == 0
LocB == RegionSize
LocData == 2 * RegionSize
MemSize == 3 * RegionSize
Addr == 0..(MemSize - 1)

\* The two storage locations of type T a view can be built over.
Locations == {LocA, LocB}

\* The shapes of T explored.
Shapes ==
    {<<n>> : n \in 0..MaxN} \cup {<<m, n>> : m \in 0..MaxM, n \in 0..MaxRowN}

\* Initial contents: pattern p at offset k of a location.
Pat(p, k) ==
    CASE p = 0 -> 0
      [] p = 1 -> 1
      [] p = 2 -> (131 + 29 * k) % 256
      [] p = 3 -> (7 + 53 * k) % 256
      [] OTHER -> (90 + k) % 256

InitMem(shape, pa, pd) ==
    [a \in Addr |->
        LET base == IF a >= LocData THEN LocData ELSE IF a >= LocB THEN LocB ELSE LocA
            k == a - base
        IN IF k >= SizeOf(shape) THEN 238
           ELSE IF base = LocA THEN Pat(pa, k)
           ELSE IF base = LocB THEN Pat(4, k)
           ELSE Pat(pd, k)]

\* ------------------------------------------------------------ state
VARIABLES
    ty,         \* the shape of T, the type of the caller's locations
    mem,        \* the bytes of memory
    stack,      \* the live views, the usable one last; each borrows from the one before
    raw,        \* the pointer pair returned by the last into_raw, if any
    unchecked,  \* a view was built by from_raw from addresses of the caller's choosing
    pc,         \* "idle", "asm", "nested" or "panicked"
    ip,         \* the instruction of the assembly block to execute next (0..8)
    regs,       \* the registers of the assembly block
    loc,        \* the locals of the nested xor_in2out: input, temp, i, j
    call,       \* the xor_in2out call in progress or last completed, with the memory at call time
    log,        \* the memory accesses of that call, in order
    ncalls,     \* the number of xor_in2out calls made so far
    result      \* the last operation and its outcome

vars == <<ty, mem, stack, raw, unchecked, pc, ip, regs, loc, call, log, ncalls, result>>

Top == stack[Len(stack)]
Pop(s) == SubSeq(s, 1, Len(s) - 1)

Zero4 == [l \in 1..WordBytes |-> 0]
NoRegs == [a0 |-> 0, a1 |-> 0, a2 |-> 0, t0 |-> Zero4, t1 |-> Zero4,
           t2 |-> Zero4, t3 |-> Zero4, t4 |-> 0, lpcount |-> 0]
NoLoc == [input |-> << >>, temp |-> << >>, i |-> 0, j |-> 0]
NoView == [in_ptr |-> 0, out_ptr |-> 0, shape |-> << >>]
NoCall == [kind |-> "none", self |-> NoView, data |-> 0, mem0 |-> << >>]
NoRaw == [some |-> FALSE, in_ptr |-> 0, out_ptr |-> 0, shape |-> << >>]
Outcome(op, status, pos) == [op |-> op, status |-> status, pos |-> pos]

\* ------------------------------------------------------------ the view (lines 7-128)
\* From<&mut T>
from_mut(val, shape) ==
    [in_ptr |-> val, out_ptr |-> val, shape |-> shape]

\* From<(&T, &mut T)>, preceded by the variant that takes both pointers
\* from the input reference.
from_pair_same(in_val, out_val, shape) ==
    [in_ptr |-> in_val, out_ptr |-> in_val, shape |-> shape]

from_pair(in_val, out_val, shape) ==
    [in_ptr |-> in_val, out_ptr |-> out_val, shape |-> shape]

\* reborrow, preceded by the variant that exchanges the two pointers.
reborrow_swapped(self) ==
    [in_ptr |-> self.out_ptr, out_ptr |-> self.in_ptr, shape |-> self.shape]

reborrow(self) ==
    [in_ptr |-> self.in_ptr, out_ptr |-> self.out_ptr, shape |-> self.shape]

\* The address of the reference get_in / get_out returns.
get_in(self) == self.in_ptr
get_out(self) == self.out_ptr

into_raw(self) ==
    [some |-> TRUE, in_ptr |-> self.in_ptr, out_ptr |-> self.out_ptr, shape |-> self.shape]

from_raw(in_ptr, out_ptr, shape) ==
    [in_ptr |-> in_ptr, out_ptr |-> out_ptr, shape |-> shape]

\* assert!(pos < N::USIZE), preceded by the variant that lets pos = N through.
get_assert_le(self, pos) == pos <= Head(self.shape)

get_assert(self, pos) == pos < Head(self.shape)

\* The element view of get(pos): both pointers advanced by pos elements;
\* preceded by the variant that advances the input pointer only.
get_in_only(self, pos) ==
    [in_ptr |-> self.in_ptr + pos * SizeOf(Tail(self.shape)),
     out_ptr |-> self.out_ptr,
     shape |-> Tail(self.shape)]

get(self, pos) ==
    [in_ptr |-> self.in_ptr + pos * SizeOf(Tail(self.shape)),
     out_ptr |-> self.out_ptr + pos * SizeOf(Tail(self.shape)),
     shape |-> Tail(self.shape)]

\* ------------------------------------------------------------ flat xor_in2out (lines 130-166)
Event(k, a, n) == [k |-> k, a |-> a, n |-> n]

\* assert_eq!(N::USIZE & 7, 0)
xor_assert(N) == N % GroupBytes = 0

\* The four bytes at address a.
Load(m, a) == [l \in 1..WordBytes |-> m[a + l - 1]]

\* lw_pi!(rd, 4(rs!)): load the word at rs into rd, then rs += 4; preceded
\* by the variant without the post-increment.
lw_pi_noinc(r, m, rd, rs) == [r EXCEPT ![rd] = Load(m, r[rs])]

lw_pi(r, m, rd, rs) ==
    [r EXCEPT ![rd] = Load(m, r[rs]), ![rs] = r[rs] + WordBytes]

\* xor!(rd, rs1, rs2)
xor(r, rd, rs1, rs2) ==
    [r EXCEPT ![rd] = [l \in 1..WordBytes |-> XorU8(r[rs1][l], r[rs2][l])]]

\* sw_pi!(rs, 4(rd!)): store the word in rs at rd, then rd += 4.
Store(m, a, w) ==
    [x \in Addr |-> IF x >= a /\ x < a + WordBytes THEN w[x - a + 1] ELSE m[x]]

sw_pi(r, m, rs, rd) ==
    [regs |-> [r EXCEPT ![rd] = r[rd] + WordBytes],
     mem |-> Store(m, r[rd], r[rs])]

\* lp_setup!(0, t4, 16): hardware loop 0 over the eight instructions that
\* follow, with the count taken from t4.
lp_setup(r) == [r EXCEPT !.lpcount = r.t4]

\* in("t4") N::USIZE / 8
loop_count(N) == N \div GroupBytes

\* The hardware loop at the last instruction of the body: it branches back to
\* the first while more than one iteration remains.  lp_setup is no branch:
\* the body follows it in program order and is executed once before the
\* count is looked at for the first time, also when the count is 0.
lp_again(r) == r.lpcount > 1

\* The data operands a caller can pass: its data location, or (both being
\* shared borrows) the input of an out-of-place view.
DataOperands(self) ==
    {LocData} \cup
    (IF /\ self.in_ptr # self.out_ptr
        /\ \/ self.in_ptr + SizeOf(self.shape) <= self.out_ptr
           \/ self.out_ptr + SizeOf(self.shape) <= self.in_ptr
     THEN {self.in_ptr} ELSE {})

XorFlatCall ==
    /\ pc = "idle"
    /\ ncalls < MaxCalls
    /\ ncalls' = ncalls + 1
    /\ ~raw.some
    /\ stack # << >>
    /\ Len(Top.shape) = 1
    /\ \E d \in DataOperands(Top) :
        /\ call' = [kind |-> "flat", self |-> Top, data |-> d, mem0 |-> mem]
        /\ log' = << >>
        /\ IF xor_assert(Head(Top.shape))
           THEN /\ pc' = "asm"
                /\ ip' = 0
                /\ regs' = [NoRegs EXCEPT !.a0 = Top.in_ptr, !.a1 = d,
                                          !.a2 = Top.out_ptr,
                                          !.t4 = loop_count(Head(Top.shape))]
                /\ result' = Outcome("xor_flat", "running", 0)
           ELSE /\ pc' = "panicked"
                /\ result' = Outcome("xor_flat", "panic", 0)
                /\ UNCHANGED <<ip, regs>>
    /\ UNCHANGED <<ty, mem, stack, raw, unchecked, loc>>

LpSetup ==
    /\ pc = "asm" /\ ip = 0
    /\ regs' = lp_setup(regs)
    /\ ip' = 1
    /\ UNCHANGED <<ty, ncalls, mem, stack, raw, unchecked, pc, loc, call, log, result>>

\* An instruction of the body that loads: no memory changes.
LoadStep(n, kind, rd, rs) ==
    /\ pc = "asm" /\ ip = n
    /\ regs' = lw_pi(regs, mem, rd, rs)
    /\ log' = Append(log, Event(kind, regs[rs], WordBytes))
    /\ ip' = n + 1
    /\ UNCHANGED <<ty, ncalls, mem, stack, raw, unchecked, pc, loc, call, result>>

LwIn0 == LoadStep(1, "in", "t0", "a0")
LwIn1 == LoadStep(2, "in", "t1", "a0")
LwData0 == LoadStep(3, "data", "t2", "a1")
LwData1 == LoadStep(4, "data", "t3", "a1")

XorStep(n, rd, rs1, rs2) ==
    /\ pc = "asm" /\ ip = n
    /\ regs' = xor(regs, rd, rs1, rs2)
    /\ ip' = n + 1
    /\ UNCHANGED <<ty, ncalls, mem, stack, raw, unchecked, pc, loc, call, log, result>>

XorT0 == XorStep(5, "t0", "t0", "t2")
XorT1 == XorStep(6, "t1", "t1", "t3")

SwOut0 ==
    /\ pc = "asm" /\ ip = 7
    /\ regs' = sw_pi(regs, mem, "t0", "a2").regs
    /\ mem' = sw_pi(regs, mem, "t0", "a2").mem
    /\ log' = Append(log, Event("out", regs.a2, WordBytes))
    /\ ip' = 8
    /\ UNCHANGED <<ty, ncalls, stack, raw, unchecked, pc, loc, call, result>>

\* The last instruction of the body, where the hardware loop either branches
\* back or falls through to the end of the block and of the call.
SwOut1 ==
    /\ pc = "asm" /\ ip = 8
    /\ mem' = sw_pi(regs, mem, "t1", "a2").mem
    /\ log' = Append(log, Event("out", regs.a2, WordBytes))
    /\ IF lp_again(regs)
       THEN /\ regs' = [sw_pi(regs, mem, "t1", "a2").regs EXCEPT !.lpcount = @ - 1]
            /\ ip' = 1
            /\ UNCHANGED <<pc, result>>
       ELSE /\ regs' = sw_pi(regs, mem, "t1", "a2").regs
            /\ ip' = 0
            /\ pc' = "idle"
            /\ result' = Outcome("xor_flat", "ok", 0)
    /\ UNCHANGED <<ty, ncalls, stack, raw, unchecked, loc, call>>

\* ------------------------------------------------------------ nested xor_in2out (lines 168-192)
\* ptr::read(self.in_ptr): the whole M x N array, by value.
ptr_read(m, p, M, N) ==
    [i \in 0..(M - 1) |-> [j \in 0..(N - 1) |-> m[p + i * N + j]]]

\* GenericArray::<GenericArray<u8, N>, M>::default()
default(M, N) == [i \in 0..(M - 1) |-> [j \in 0..(N - 1) |-> 0]]

\* ptr::write(self.out_ptr, temp): the whole array, in one write; preceded
\* by the variant that stops one byte short.
ptr_write_short(m, p, val, M, N) ==
    [x \in Addr |-> IF x >= p /\ x < p + M * N - 1
                    THEN val[(x - p) \div N][(x - p) % N] ELSE m[x]]

ptr_write(m, p, val, M, N) ==
    [x \in Addr |-> IF x >= p /\ x < p + M * N
                    THEN val[(x - p) \div N][(x - p) % N] ELSE m[x]]

\* One pass of the inner loop body, temp[i][j] = input[i][j] ^ data[i][j];
\* it changes the temporary and no memory.  The variant before it is the
\* loop without a temporary: it reads the input in place and writes each
\* result to the output as it goes.
loop_body_in_place(l, m, self, d) ==
    LET N == self.shape[2]
        v == XorU8(m[self.in_ptr + l.i * N + l.j], m[d + l.i * N + l.j])
    IN [loc |-> [l EXCEPT !.temp[l.i][l.j] = v],
        mem |-> [m EXCEPT ![self.out_ptr + l.i * N + l.j] = v]]

loop_body(l, m, self, d) ==
    LET N == self.shape[2]
    IN [loc |-> [l EXCEPT !.temp[l.i][l.j] =
                    XorU8(l.input[l.i][l.j], m[d + l.i * N + l.j])],
        mem |-> m]

\* for i in 0..M { for j in 0..N { .. } }: the loops are over once i reaches
\* M, and at once when the rows are empty.
LoopDone(l, self) == l.i >= self.shape[1] \/ self.shape[2] = 0

XorNestedCall ==
    /\ pc = "idle"
    /\ ncalls < MaxCalls
    /\ ncalls' = ncalls + 1
    /\ ~raw.some
    /\ stack # << >>
    /\ Len(Top.shape) = 2
    /\ \E d \in DataOperands(Top) :
        call' = [kind |-> "nested", self |-> Top, data |-> d, mem0 |-> mem]
    /\ loc' = [input |-> ptr_read(mem, Top.in_ptr, Top.shape[1], Top.shape[2]),
               temp |-> default(Top.shape[1], Top.shape[2]),
               i |-> 0, j |-> 0]
    /\ log' = <<Event("in", Top.in_ptr, SizeOf(Top.shape))>>
    /\ pc' = "nested"
    /\ result' = Outcome("xor_nested", "running", 0)
    /\ UNCHANGED <<ty, mem, stack, raw, unchecked, ip, regs>>

XorNestedStep ==
    /\ pc = "nested"
    /\ ~LoopDone(loc, call.self)
    /\ LET r == loop_body(loc, mem, call.self, call.data)
           N == call.self.shape[2]
       IN /\ loc' = IF loc.j + 1 < N
                    THEN [r.loc EXCEPT !.j = loc.j + 1]
                    ELSE [r.loc EXCEPT !.i = loc.i + 1, !.j = 0]
          /\ mem' = r.mem
          /\ log' = Append(log, Event("data", call.data + loc.i * N + loc.j, 1))
    /\ UNCHANGED <<ty, ncalls, stack, raw, unchecked, pc, ip, regs, call, result>>

XorNestedWrite ==
    /\ pc = "nested"
    /\ LoopDone(loc, call.self)
    /\ mem' = ptr_write(mem, call.self.out_ptr, loc.temp,
                        call.self.shape[1], call.self.shape[2])
    /\ log' = Append(log, Event("out", call.self.out_ptr, SizeOf(call.self.shape)))
    /\ loc' = NoLoc
    /\ pc' = "idle"
    /\ result' = Outcome("xor_nested", "ok", 0)
    /\ UNCHANGED <<ty, ncalls, stack, raw, unchecked, ip, regs, call>>

\* ------------------------------------------------------------ view operations
\* A view operation runs between calls and touches no memory.  The runs
\* explored build their views first and call xor_in2out afterwards, and hand
\* the pair of into_raw straight to from_raw.
ViewOp ==
    /\ pc = "idle"
    /\ UNCHANGED <<ty, mem, ip, regs, loc, call, log, ncalls>>

Build ==
    /\ ViewOp
    /\ ncalls = 0
    /\ ~raw.some

FromMut ==
    /\ Build
    /\ stack = << >>
    /\ \E val \in Locations : stack' = <<from_mut(val, ty)>>
    /\ result' = Outcome("from_mut", "ok", 0)
    /\ UNCHANGED <<raw, unchecked, pc>>

\* The borrow rules give two distinct, non-overlapping locations.
FromPair ==
    /\ Build
    /\ stack = << >>
    /\ \E in_val \in Locations, out_val \in Locations :
        /\ in_val # out_val
        /\ stack' = <<from_pair(in_val, out_val, ty)>>
    /\ result' = Outcome("from_pair", "ok", 0)
    /\ UNCHANGED <<raw, unchecked, pc>>

Reborrow ==
    /\ Build
    /\ stack # << >>
    /\ Len(stack) < MaxDepth
    /\ stack' = Append(stack, reborrow(Top))
    /\ result' = Outcome("reborrow", "ok", 0)
    /\ UNCHANGED <<raw, unchecked, pc>>

Get ==
    /\ Build
    /\ stack # << >>
    /\ Len(stack) < MaxDepth
    /\ Top.shape # << >>
    /\ \E pos \in 0..MaxPos :
        IF get_assert(Top, pos)
        THEN /\ stack' = Append(stack, get(Top, pos))
             /\ result' = Outcome("get", "ok", pos)
             /\ pc' = pc
        ELSE /\ stack' = stack
             /\ result' = Outcome("get", "panic", pos)
             /\ pc' = "panicked"
    /\ UNCHANGED <<raw, unchecked>>

IntoRaw ==
    /\ Build
    /\ stack # << >>
    /\ raw' = into_raw(Top)
    /\ stack' = Pop(stack)
    /\ result' = Outcome("into_raw", "ok", 0)
    /\ UNCHANGED <<unchecked, pc>>

\* from_raw on the pair into_raw returned.
FromRawPair ==
    /\ ViewOp
    /\ raw.some
    /\ Len(stack) < MaxDepth
    /\ stack' = Append(stack, from_raw(raw.in_ptr, raw.out_ptr, raw.shape))
    /\ raw' = NoRaw
    /\ result' = Outcome("from_raw", "ok", 0)
    /\ UNCHANGED <<unchecked, pc>>

\* from_raw on addresses of the caller's choosing; nothing is checked.
FromRawAny ==
    /\ Build
    /\ stack = << >>
    /\ ~unchecked
    /\ \E i \in {LocA, LocA + 1}, o \in {LocA, LocB} :
        stack' = <<from_raw(i, o, ty)>>
    /\ unchecked' = TRUE
    /\ result' = Outcome("from_raw", "ok", 0)
    /\ UNCHANGED <<raw, pc>>

\* The usable view goes out of scope.
Drop ==
    /\ ViewOp
    /\ ~raw.some
    /\ stack # << >>
    /\ stack' = Pop(stack)
    /\ result' = Outcome("drop", "ok", 0)
    /\ UNCHANGED <<raw, unchecked, pc>>

\* ------------------------------------------------------------ specification
Init ==
    /\ ty \in Shapes
    /\ \E pa \in {0, 2}, pd \in {1, 3} : mem = InitMem(ty, pa, pd)
    /\ stack = << >>
    /\ raw = NoRaw
    /\ unchecked = FALSE
    /\ pc = "idle"
    /\ ip = 0
    /\ regs = NoRegs
    /\ loc = NoLoc
    /\ call = NoCall
    /\ log = << >>
    /\ ncalls = 0
    /\ result = Outcome("none", "ok", 0)

Next ==
    \/ FromMut \/ FromPair \/ Reborrow \/ Get \/ IntoRaw
    \/ FromRawPair \/ FromRawAny \/ Drop
    \/ XorFlatCall \/ LpSetup
    \/ LwIn0 \/ LwIn1 \/ LwData0 \/ LwData1 \/ XorT0 \/ XorT1 \/ SwOut0 \/ SwOut1
    \/ XorNestedCall \/ XorNestedStep \/ XorNestedWrite

Spec == Init /\ [][Next]_vars

\* ------------------------------------------------------------ vocabulary of the claims
\* Invariant I1 of a view: the two ranges are the same or do not overlap.
I1(v) ==
    \/ v.in_ptr = v.out_ptr
    \/ v.in_ptr + SizeOf(v.shape) <= v.out_ptr
    \/ v.out_ptr + SizeOf(v.shape) <= v.in_ptr

\* The call recorded in `call` has returned (normally).
FlatReturned == call.kind = "flat" /\ pc = "idle"
NestedReturned == call.kind = "nested" /\ pc = "idle"
\* The call recorded in `call` is over, by return or by panic.
FlatOver == call.kind = "flat" /\ pc \in {"idle", "panicked"}

CallN == Head(call.self.shape)
In0(i) == call.mem0[call.self.in_ptr + i]
Data0(i) == call.mem0[call.data + i]
Out(i) == mem[call.self.out_ptr + i]

\* Positions of the log holding an access of kind k.
LogOf(k) == {e \in DOMAIN log : log[e].k = k}
\* The byte indices, relative to the start of its buffer, an access covers.
Base(k) ==
    IF k = "in" THEN call.self.in_ptr
    ELSE IF k = "out" THEN call.self.out_ptr ELSE call.data
Indices(e) == {log[e].a - Base(log[e].k) + d : d \in 0..(log[e].n - 1)}
Bytes(e) == {log[e].a + d : d \in 0..(log[e].n - 1)}

\* ------------------------------------------------------------ claims
\* C1: for every N, once the flat xor_in2out is over, out[i] = in0[i] XOR
\* data[i] for every i < N, in0 and data being the values at call time, for
\* out-of-place and in-place views alike.
C1_FlatXorEveryN ==
    (FlatOver /\ I1(call.self)) =>
        \A i \in 0..(CallN - 1) : Out(i) = XorU8(In0(i), Data0(i))

\* The same law for the calls that return: the lengths the assertion lets
\* through.  (Not a claim; it shows where C1 fails and where it does not.)
FlatXorWhenReturned ==
    (FlatReturned /\ I1(call.self)) =>
        \A i \in 0..(CallN - 1) : Out(i) = XorU8(In0(i), Data0(i))

\* C2: the flat xor_in2out never panics, whatever the length N.
C2_FlatTotal == call.kind = "flat" => pc # "panicked"

\* C3: once the nested xor_in2out has returned, out[i][j] = in0[i][j] XOR
\* data[i][j] for all i < M, j < N, also when input and output coincide.
C3_NestedXor ==
    (NestedReturned /\ I1(call.self)) =>
        \A i \in 0..(SizeOf(call.self.shape) - 1) : Out(i) = XorU8(In0(i), Data0(i))

C3_Witness ==
    /\ NestedReturned
    /\ call.self.in_ptr = call.self.out_ptr
    /\ call.self.shape = <<2, 8>>
    /\ \E i \in 0..15 : Out(i) # In0(i)
    /\ \E i \in 0..7 : In0(i) # In0(i + 8)

\* C4: a step of get(pos) on a view over N elements panics, producing no
\* view and leaving memory alone, exactly when pos >= N; otherwise it yields
\* the element view at base_in + pos * sizeof(element) and base_out + pos *
\* sizeof(element).
C4_GetBounds ==
    [][result'.op = "get" =>
        LET N == Head(Top.shape)
            pos == result'.pos
            size == SizeOf(Tail(Top.shape))
        IN /\ mem' = mem
           /\ IF pos >= N
              THEN /\ result'.status = "panic"
                   /\ pc' = "panicked"
                   /\ stack' = stack
              ELSE /\ result'.status = "ok"
                   /\ pc' = "idle"
                   /\ stack' = Append(stack, [in_ptr |-> Top.in_ptr + pos * size,
                                              out_ptr |-> Top.out_ptr + pos * size,
                                              shape |-> Tail(Top.shape)])]_vars

C4_Witness ==
    /\ result.op = "get" /\ result.status = "ok"
    /\ Len(stack) >= 2
    /\ result.pos = Head(stack[Len(stack) - 1].shape) - 1
    /\ result.pos > 0
    /\ Top.in_ptr # stack[Len(stack) - 1].in_ptr
    /\ Top.in_ptr # Top.out_ptr

\* C5: From<&mut T> gives a view whose input and output addresses are equal,
\* and every view derived from such a view by reborrow and get has equal
\* input and output addresses too.
C5_AliasingIdentity ==
    /\ result.op = "from_mut" => (Len(stack) = 1 /\ get_in(Top) = get_out(Top))
    /\ (stack # << >> /\ get_in(stack[1]) = get_out(stack[1])) =>
            \A k \in DOMAIN stack : get_in(stack[k]) = get_out(stack[k])

C5_Witness ==
    /\ Len(stack) = 3
    /\ get_in(stack[1]) = get_out(stack[1])
    /\ ~unchecked
    /\ get_in(Top) = get_in(stack[1]) + 9
    /\ get_in(Top) = get_out(Top)

\* C6: From<(&T, &mut T)> over two distinct, non-overlapping locations gives
\* a view with differing addresses, and every view reached through the safe
\* operations satisfies I1.
C6_SafeViewsI1 ==
    /\ result.op = "from_pair" =>
            (Len(stack) = 1 /\ Top.in_ptr # Top.out_ptr /\ I1(Top))
    /\ ~unchecked => \A k \in DOMAIN stack : I1(stack[k])

C6_Witness ==
    /\ ~unchecked
    /\ Len(stack) = 3
    /\ stack[1].in_ptr # stack[1].out_ptr
    /\ stack[1].shape = <<2, 8>>
    /\ Top.shape = << >>
    /\ Top.in_ptr = stack[1].in_ptr + 9

\* C7: reborrow yields a view with the original's two addresses; into_raw
\* returns exactly the view's two addresses and from_raw builds a view with
\* exactly the two addresses it is given, so into_raw followed by from_raw
\* reproduces the view; none of them changes memory.
C7_Conversions ==
    [][/\ result'.op = "reborrow" =>
            /\ get_in(Top') = get_in(Top) /\ get_out(Top') = get_out(Top)
            /\ Len(stack') = Len(stack) + 1
            /\ mem' = mem
       /\ result'.op = "into_raw" =>
            /\ raw'.some
            /\ raw'.in_ptr = get_in(Top) /\ raw'.out_ptr = get_out(Top)
            /\ mem' = mem
       /\ (result'.op = "from_raw" /\ raw.some) =>
            /\ get_in(Top') = raw.in_ptr /\ get_out(Top') = raw.out_ptr
            /\ Top'.shape = raw.shape
            /\ mem' = mem]_vars

C7_Witness ==
    /\ result.op = "from_raw"
    /\ ~unchecked
    /\ Len(stack) = 2
    /\ Top.in_ptr # Top.out_ptr
    /\ Top.in_ptr # stack[1].in_ptr

\* C8: in the nested xor_in2out the whole input is read into a temporary
\* first, the result is built in a temporary, and the output is written once,
\* as the last access; until that write, memory (the output location, and the
\* shared location of an in-place view) holds its value from call time.
C8_NestedOrder ==
    LET self == call.self
        size == SizeOf(self.shape)
        N == self.shape[2]
        WholeInputFirst ==
            /\ log # << >>
            /\ log[1] = Event("in", self.in_ptr, size)
            /\ LogOf("in") = {1}
    IN /\ pc = "nested" =>
            /\ WholeInputFirst
            /\ LogOf("out") = {}
            /\ mem = call.mem0
            /\ loc.input = ptr_read(call.mem0, self.in_ptr, self.shape[1], N)
            /\ \A i \in 0..(self.shape[1] - 1), j \in 0..(N - 1) :
                    loc.temp[i][j] =
                        IF i < loc.i \/ (i = loc.i /\ j < loc.j)
                        THEN XorU8(In0(i * N + j), Data0(i * N + j))
                        ELSE 0
       /\ NestedReturned =>
            /\ WholeInputFirst
            /\ LogOf("out") = {Len(log)}
            /\ log[Len(log)] = Event("out", self.out_ptr, size)
            /\ \A x \in Addr :
                    (x < self.out_ptr \/ x >= self.out_ptr + size) => mem[x] = call.mem0[x]

C8_Witness ==
    /\ pc = "nested"
    /\ call.self.in_ptr = call.self.out_ptr
    /\ call.self.shape = <<2, 8>>
    /\ loc.i = 1 /\ loc.j = 3
    /\ \E j \in 0..7 : loc.temp[0][j] # loc.input[0][j]

\* C9: the flat loop moves through each buffer in strictly increasing order;
\* every output byte is written after the input byte of the same index has
\* been read, no input byte is read after the output byte of its index has
\* been written, and no read of the input falls on a byte this call has
\* already written.
C9_FlatOrder ==
    call.kind = "flat" =>
        /\ \A e \in DOMAIN log, f \in DOMAIN log :
                (e < f /\ log[e].k = log[f].k) => log[e].a < log[f].a
        /\ \A o \in LogOf("out") : \A x \in Indices(o) :
                \E i \in LogOf("in") : i < o /\ x \in Indices(i)
        /\ \A o \in LogOf("out"), i \in LogOf("in") :
                (Indices(i) \cap Indices(o) # {}) => i < o
        /\ I1(call.self) =>
                \A o \in LogOf("out"), i \in LogOf("in") :
                    o < i => Bytes(i) \cap Bytes(o) = {}

C9_Witness ==
    /\ FlatReturned
    /\ call.self.in_ptr = call.self.out_ptr
    /\ CallN = 16
    /\ Len(log) = 12
    /\ \E i \in 0..15 : Out(i) # In0(i)

\* C10: a flat xor_in2out that returns has run exactly N / 8 iterations, has
\* written every output byte of [0, N) exactly once, has touched no byte at
\* offset >= N of the input, data or output buffer, and has left the input
\* and data buffers of an out-of-place view unchanged.
Footprint ==
    /\ \A k \in {"in", "data", "out"} :
            Cardinality(LogOf(k)) = 2 * (CallN \div GroupBytes)
    /\ \A e \in DOMAIN log : Indices(e) \subseteq 0..(CallN - 1)
    /\ \A x \in 0..(CallN - 1) :
            Cardinality({o \in LogOf("out") : x \in Indices(o)}) = 1
    /\ (I1(call.self) /\ call.self.in_ptr # call.self.out_ptr) =>
            \A i \in 0..(CallN - 1) :
                /\ mem[call.self.in_ptr + i] = In0(i)
                /\ mem[call.data + i] = Data0(i)

C10_FlatFootprint == FlatReturned => Footprint

\* The footprint for the non-empty arrays.  (Not a claim; it shows that the
\* empty array is the only length whose call returns and leaves its buffers.)
FootprintNonEmpty == (FlatReturned /\ CallN > 0) => Footprint

====
